---- MODULE Spec2Model ----
(***************************************************************************)
(* The two inference servers of the repository as one state machine.       *)
(*   server = "eager" : src/app.py            (models loaded at import)    *)
(*   server = "lazy"  : src/ml-server/app.py  (models loaded on first use) *)
(* A request handler is an async function: it runs without interruption    *)
(* up to an await (file.read(), request.json()), where other handlers may  *)
(* run, and then to its end.  Each handler is therefore two actions, one   *)
(* up to the await and one after it; the awaited content (the file bytes,  *)
(* the JSON body) is an input of the second.                               *)
(***************************************************************************)
EXTENDS Integers, Sequences, FiniteSets, Bags, TLC

\* ------------------------------------------------------------------ bounds
NumReqs == 2     \* requests that can be in flight at once
MaxLoads == 2    \* load attempts per model kind that are counted
Slack == 1       \* feature counts tried: 0 and 22-Slack .. 22+Slack
MaxRows == 2     \* rows of a nested list or of a 2-D array
Scale == 4       \* a model score r stands for r / Scale
RawLow == 1      \* raw scores start at -RawLow / Scale
RawHigh == 5     \* raw scores end at RawHigh / Scale

\* ------------------------------------------------------- program constants
FEATURES == 22
VOICE_LABELS == [c \in {0, 1} |-> IF c = 0 THEN "healthy" ELSE "parkinsons"]

Kinds == {"mri", "voice"}
Servers == {"eager", "lazy"}

\* ------------------------------------------------------------ JSON values
JInvalid == [t |-> "invalid"]                 \* a body that is not JSON
JNull == [t |-> "null"]
JNum(v) == [t |-> "num", v |-> v]
JStr(words) == [t |-> "str", s |-> words]     \* a string, as its words
JList(items) == [t |-> "list", items |-> items]
JObj(fields) == [t |-> "obj", fields |-> fields]

FEATURES_KEY == JStr(<<"features">>)

\* The list [first+1, ..., first+n] of numbers.
Nums(first, n) == [i \in 1..n |-> JNum(first + i)]

Lens == {0} \cup {n \in (FEATURES - Slack)..(FEATURES + Slack) : n >= 0}

\* Rows x columns of the nested lists and 2-D arrays tried.
Shapes2 == {sh \in (1..MaxRows) \X (0..(FEATURES + Slack)) : (sh[1] * sh[2]) \in Lens}

FlatLists == {JList(Nums(0, n)) : n \in Lens}

\* A numeric list whose last element is a string numpy cannot convert.
BadLists ==
    {JList(Append(Nums(0, n - 1), e)) : n \in Lens \ {0}, e \in {JStr(<<"abc">>), FEATURES_KEY}}

NestedLists ==
    {JList([r \in 1..sh[1] |-> JList(Nums((r - 1) * sh[2], sh[2]))]) : sh \in Shapes2}

FeatureValues == FlatLists \cup BadLists \cup NestedLists \cup {JNum(1), JStr(<<"abc">>)}

JsonBodies ==
    {JInvalid, JNull, JNum(1), JStr(<<"abc">>), JStr(<<"my", "features">>),
     JObj([other |-> JNum(1)])}
    \cup {JObj([features |-> v]) : v \in FeatureValues}
    \cup FlatLists \cup BadLists \cup NestedLists

\* --------------------------------------------------------- numpy arrays
\* err = "none": an array of the given shape, data in row-major order.
Arr(shape, data) == [err |-> "none", shape |-> shape, data |-> data]
Raise(e) == [err |-> e, shape |-> <<>>, data |-> <<>>]

Iota(n) == [i \in 1..n |-> i]

RECURSIVE Prod(_)
Prod(shape) == IF shape = <<>> THEN 1 ELSE Head(shape) * Prod(Tail(shape))

\* An uploaded .npy file: what np.load makes of its bytes.
NpyUnparseable == [t |-> "npy", arr |-> Raise("ValueError")]
NpyArray(shape) == [t |-> "npy", arr |-> Arr(shape, Iota(Prod(shape)))]

Shapes3 == {<<1, FEATURES, 1>>, <<1, 1, FEATURES>>, <<MaxRows, FEATURES, 1>>}

NpyFiles ==
    {NpyUnparseable, NpyArray(<<>>)}
    \cup {NpyArray(<<n>>) : n \in Lens}
    \cup {NpyArray(sh) : sh \in Shapes2}
    \cup {NpyArray(sh) : sh \in Shapes3}

IsNum(v) == v.t = "num"
IsList(v) == v.t = "list"

RECURSIVE Concat(_)
Concat(seqs) == IF seqs = <<>> THEN <<>> ELSE Head(seqs) \o Concat(Tail(seqs))

\* np.array(features, dtype=np.float32) of a JSON value.
NpArray(v) ==
    CASE v.t = "num" -> Arr(<<>>, <<v.v>>)
      [] v.t = "str" -> Raise("ValueError")
      [] v.t = "obj" -> Raise("TypeError")
      [] v.t = "null" -> Raise("TypeError")
      [] v.t = "list" ->
            LET it == v.items
                n == Len(it)
            IN  IF \A i \in 1..n : IsNum(it[i])
                THEN Arr(<<n>>, [i \in 1..n |-> it[i].v])
                ELSE IF /\ \A i \in 1..n : IsList(it[i])
                        /\ \A i \in 1..n : \A j \in 1..Len(it[i].items) : IsNum(it[i].items[j])
                        /\ \A i \in 1..n : Len(it[i].items) = Len(it[1].items)
                THEN Arr(<<n, Len(it[1].items)>>,
                         Concat([i \in 1..n |-> [j \in 1..Len(it[i].items) |-> it[i].items[j].v]]))
                ELSE Raise("ValueError")
      [] OTHER -> Raise("TypeError")

\* arr.reshape(1, -1)
Reshape1(a) == IF a.err # "none" THEN a ELSE Arr(<<1, Len(a.data)>>, a.data)

preprocess_voice_from_list(features) == Reshape1(NpArray(features))

\* preprocess_voice_from_npy_bytes as it would be if it kept the rows of a 2-D
\* array.
preprocess_voice_keeping_rows(file) ==
    LET arr == file.arr
    IN  IF arr.err # "none" THEN Raise("ValueError")
        ELSE IF Len(arr.shape) = 1 THEN Reshape1(arr)
        ELSE arr

preprocess_voice_from_npy_bytes(file) ==
    LET arr == file.arr
    IN  IF arr.err # "none" THEN Raise("ValueError")
        ELSE IF Len(arr.shape) = 1 THEN Reshape1(arr)
        ELSE IF Len(arr.shape) = 2 /\ arr.shape[1] # 1 THEN Reshape1(arr)
        ELSE arr

\* "features" in body
HasFeatures(body) ==
    CASE body.t = "obj" -> IF "features" \in DOMAIN body.fields THEN "true" ELSE "false"
      [] body.t = "list" ->
            IF \E i \in 1..Len(body.items) :
                    body.items[i].t = "str" /\ body.items[i].s = FEATURES_KEY.s
            THEN "true" ELSE "false"
      [] body.t = "str" ->
            IF \E i \in 1..Len(body.s) : body.s[i] = "features" THEN "true" ELSE "false"
      [] OTHER -> "TypeError"

\* body["features"]
GetFeatures(body) ==
    IF body.t = "obj" THEN [err |-> "none", value |-> body.fields.features]
    ELSE [err |-> "TypeError", value |-> JNull]

\* ----------------------------------------------------------------- floats
\* A float32 score: v / Scale, or NaN.
Float(v) == [nan |-> FALSE, v |-> v]
NaN == [nan |-> TRUE, v |-> 0]

\* Clip as it would be without the clipping.
ClipNothing(x) == x

\* np.clip(prob, 0, 1): NaN stays NaN.
Clip(x) == IF x.nan THEN x ELSE IF x.v < 0 THEN Float(0) ELSE IF x.v > Scale THEN Float(Scale) ELSE x

\* AboveHalf as it would be with >= for >.
AtLeastHalf(x) == ~x.nan /\ 2 * x.v >= Scale

\* prob > 0.5: every comparison with NaN is false.
AboveHalf(x) == ~x.nan /\ 2 * x.v > Scale

MriLabel(prob) == IF AboveHalf(prob) THEN "parkinsons" ELSE "normal"

\* -------------------------------------------------------------- responses
NoBody == [none |-> TRUE]
\* A message: its fixed text, the exception text it quotes (f"...: {e}") and the
\* numbers it formats in, in order.
Detail(text, cause, nums) == [text |-> text, cause |-> cause, nums |-> nums]
NoDetail == Detail("", "", <<>>)
\* return {...}: the framework renders the dict as the 200 response.
Ok(body) == [status |-> 200, exc |-> "none", detail |-> NoDetail, body |-> body]
\* raise HTTPException(status, detail)
Http(status, detail) == [status |-> status, exc |-> "HTTPException", detail |-> detail, body |-> NoBody]
\* Any other exception that leaves the handler: the server answers 500 itself.
Unhandled(e) == [status |-> 500, exc |-> e, detail |-> NoDetail, body |-> NoBody]
\* file: UploadFile = File(...): a request without the field never reaches the handler.
MissingField ==
    [status |-> 422, exc |-> "RequestValidationError",
     detail |-> Detail("Field required", "", <<>>), body |-> NoBody]

\* The JSON rendering of a returned dict refuses NaN (allow_nan=False).
Render(resp) ==
    IF resp.status = 200 /\ resp.body.confidence.nan THEN Unhandled("ValueError") ELSE resp

\* ---------------------------------------------------------------- handles
None == [kind |-> "none", id |-> 0, proba |-> FALSE, classes |-> <<>>]
Handle(kind, id, proba, classes) == [kind |-> kind, id |-> id, proba |-> proba, classes |-> classes]

MriArtifacts == {"missing", "corrupt", "ok"}
\* "point": a classifier without predict_proba; "probabilistic": one with it.
VoiceArtifacts == {"missing", "corrupt", "point", "probabilistic"}
VoiceClasses == <<0, 1>>

\* os.path.exists(path)
Exists(artifact) == artifact # "missing"

\* ---------------------------------------------------------------- requests
NoPayload == [t |-> "none"]
NoCtype == <<>>
\* A request: its route, whether it has the multipart field `file`, the content
\* type declared for that file, and the content sent (file bytes or JSON body).
Request(ep, file, ctype, payload) == [ep |-> ep, file |-> file, ctype |-> ctype, payload |-> payload]
NoRequest == Request("none", "absent", NoCtype, NoPayload)

ImageType == <<"image", "png">>
Ctypes == {NoCtype, ImageType, <<"text", "plain">>}

\* The uploaded bytes of an MRI request: an image cv2 decodes, or not.
Images == [t : {"image"}, decodable : BOOLEAN]

MriRequests ==
    {Request("mri", "absent", NoCtype, NoPayload)}
    \cup {Request("mri", "present", c, img) : c \in Ctypes, img \in Images}

VoiceRequests ==
    {Request("voice", "present", NoCtype, f) : f \in NpyFiles}
    \cup {Request("voice", "absent", NoCtype, b) : b \in JsonBodies}

\* The requests of the serving loop: one well-formed request per model kind.
CoreRequests ==
    {Request("mri", "present", ImageType, [t |-> "image", decodable |-> TRUE]),
     Request("voice", "absent", NoCtype, JObj([features |-> JList(Nums(0, FEATURES))]))}

\* No inference ran.
NoOut == [raises |-> FALSE, ran |-> FALSE]

\* What model.predict does with an image tensor: raises, or returns a score.
RawScores == {Float(v) : v \in (0 - RawLow)..RawHigh} \cup {NaN}
MriOutcomes ==
    [raises : {TRUE}, ran : {TRUE}, raw : {Float(0)}]
    \cup [raises : {FALSE}, ran : {TRUE}, raw : RawScores]

\* What the voice model does with a (1, 22) array: raises, or returns a class id
\* and (predict_proba) one probability per class, in units of 1/Scale.
ProbVectors == {<<a, Scale - a>> : a \in 0..Scale}
VoiceOutcomes ==
    [raises : {TRUE}, ran : {TRUE}, pred : {VoiceClasses[1]}, probs : {<<Scale, 0>>}]
    \cup [raises : {FALSE}, ran : {TRUE},
          pred : {VoiceClasses[i] : i \in 1..Len(VoiceClasses)}, probs : ProbVectors]

\* The model outcomes of the serving loop.
CoreMriOutcomes == {o \in MriOutcomes : o.raises \/ o.raw = Float(Scale)}
CoreVoiceOutcomes == {o \in VoiceOutcomes : o.raises \/ (o.pred = VoiceClasses[1] /\ o.probs[1] = Scale)}

\* ------------------------------------------------------------------- state
VARIABLES
    server,            \* which of the two servers runs
    phase,             \* "boot" (importing the module), "serving", "crashed"
    mriArtifact,       \* the file at MRI_MODEL_PATH
    voiceArtifact,     \* the file at VOICE_MODEL_PATH
    mri_model,         \* module global
    voice_model,       \* module global
    voice_has_proba,   \* module global _voice_has_proba
    attempts,          \* per kind: loads started (loader calls that got past the cache test)
    busy,              \* per kind: a load has started since the server last held no
                       \* request of the kind
    slots,             \* the requests in the server, a bag of at most NumReqs
    lastResp,          \* the last request answered, and its response
    predicted          \* per kind: the first request answered 200, its response, and
                       \* whether the same request has been answered 200 again

vars ==
    <<server, phase, mriArtifact, voiceArtifact, mri_model, voice_model, voice_has_proba,
      attempts, busy, slots, lastResp, predicted>>

registry == <<mri_model, voice_model, voice_has_proba>>
history == <<attempts, busy>>
artifacts == <<mriArtifact, voiceArtifact>>

\* A request in the server: "accepted", received and its handler not yet called;
\* "await", its handler suspended at its await, with its local `model`.
Accepted(req) == [pc |-> "accepted", req |-> req, model |-> None]
Waiting(req, model) == [pc |-> "await", req |-> req, model |-> model]

\* The record of an answered request: the request, what the model returned if
\* it ran, and the response.
Answered(req, out, resp) == [req |-> req, out |-> out, resp |-> resp]
NoResp == Answered(NoRequest, NoOut, Unhandled("none"))

\* The predictions returned so far, as a client that repeats a request sees
\* them: Remember(k) notes the answer a handler of kind k has just given.
NoPrediction == [req |-> NoRequest, resp |-> Unhandled("none"), again |-> FALSE]
Remember(k) ==
    predicted' =
        IF lastResp'.resp.status # 200 THEN predicted
        ELSE IF predicted[k] = NoPrediction
        THEN [predicted EXCEPT ![k] = [req |-> lastResp'.req, resp |-> lastResp'.resp,
                                       again |-> FALSE]]
        ELSE IF predicted[k].req = lastResp'.req THEN [predicted EXCEPT ![k].again = TRUE]
        ELSE predicted

Init ==
    /\ server \in Servers
    /\ phase = IF server = "eager" THEN "boot" ELSE "serving"
    /\ mriArtifact \in MriArtifacts
    /\ voiceArtifact \in VoiceArtifacts
    /\ mri_model = None
    /\ voice_model = None
    /\ voice_has_proba = FALSE
    /\ attempts = [k \in Kinds |-> 0]
    /\ busy = [k \in Kinds |-> FALSE]
    /\ slots = EmptyBag
    /\ lastResp = NoResp
    /\ predicted = [k \in Kinds |-> NoPrediction]

\* --------------------------------------------------------- model loading
\* hasattr(voice_model, "predict_proba")
HasProba(artifact) == artifact = "probabilistic"

\* tf.keras.models.load_model / joblib.load of an artifact that exists.
Deserializes(artifact) == artifact # "corrupt"

NewMriHandle == Handle("mri", attempts["mri"] + 1, FALSE, <<>>)
NewVoiceHandle == Handle("voice", attempts["voice"] + 1, HasProba(voiceArtifact), VoiceClasses)

\* MriCached as it would be without the cache test.
MriCachedNever == FALSE

\* if mri_model is not None: return mri_model
MriCached == mri_model # None

\* VoiceCached as it would be without the cache test.
VoiceCachedNever == FALSE

\* if voice_model is not None: return voice_model
VoiceCached == voice_model # None

\* How load_mri_model() ends: "cached", "loaded", or the exception it raises.
MriLoadOutcome ==
    IF MriCached THEN "cached"
    ELSE IF ~Exists(mriArtifact) THEN "FileNotFoundError"
    ELSE IF ~Deserializes(mriArtifact) THEN "LoadError"
    ELSE "loaded"

VoiceLoadOutcome ==
    IF VoiceCached THEN "cached"
    ELSE IF ~Exists(voiceArtifact) THEN "FileNotFoundError"
    ELSE IF ~Deserializes(voiceArtifact) THEN "LoadError"
    ELSE "loaded"

LoadErrors == {"FileNotFoundError", "LoadError"}

\* The bookkeeping of one call of the loader of kind k that ended with outcome o.
Count(k, o) == attempts' = IF o = "cached" THEN attempts ELSE [attempts EXCEPT ![k] = @ + 1]

\* load_mri_model(): the globals and the bookkeeping after the call.
load_mri_model ==
    /\ mri_model' = IF MriLoadOutcome = "loaded" THEN NewMriHandle ELSE mri_model
    /\ Count("mri", MriLoadOutcome)
    /\ UNCHANGED <<voice_model, voice_has_proba>>

load_voice_model ==
    /\ voice_model' = IF VoiceLoadOutcome = "loaded" THEN NewVoiceHandle ELSE voice_model
    /\ voice_has_proba' =
          IF VoiceLoadOutcome = "loaded" THEN HasProba(voiceArtifact) ELSE voice_has_proba
    /\ Count("voice", VoiceLoadOutcome)
    /\ UNCHANGED mri_model

\* Load attempts are counted up to MaxLoads.
MayLoad(k, cached) == cached \/ attempts[k] < MaxLoads

\* Startup as it would be if a failed load did not end the process.
StartupAnyway ==
    /\ server = "eager" /\ phase = "boot"
    /\ LET mriOk == Exists(mriArtifact) /\ Deserializes(mriArtifact)
           voiceOk == Exists(voiceArtifact) /\ Deserializes(voiceArtifact)
       IN  /\ phase' = "serving"
           /\ mri_model' = IF mriOk THEN NewMriHandle ELSE None
           /\ voice_model' = IF voiceOk THEN NewVoiceHandle ELSE None
           /\ voice_has_proba' = (voiceOk /\ HasProba(voiceArtifact))
           /\ attempts' = [k \in Kinds |-> 1]
    /\ UNCHANGED <<server, artifacts, busy, slots, lastResp, predicted>>

\* Module import of the eager server: both models are loaded, in order; an
\* exception ends the process.
Startup ==
    /\ server = "eager" /\ phase = "boot"
    /\ LET mriOk == Exists(mriArtifact) /\ Deserializes(mriArtifact)
           voiceOk == Exists(voiceArtifact) /\ Deserializes(voiceArtifact)
       IN  /\ phase' = IF mriOk /\ voiceOk THEN "serving" ELSE "crashed"
           /\ mri_model' = IF mriOk THEN NewMriHandle ELSE None
           /\ voice_model' = IF mriOk /\ voiceOk THEN NewVoiceHandle ELSE None
           /\ voice_has_proba' = (mriOk /\ voiceOk /\ HasProba(voiceArtifact))
           /\ attempts' = [k \in Kinds |-> IF k = "mri" \/ mriOk THEN 1 ELSE 0]
    /\ UNCHANGED <<server, artifacts, busy, slots, lastResp, predicted>>

\* The environment replaces, removes or restores a model file.  The eager
\* server reads the files at import only.
ArtifactChange ==
    /\ server = "lazy"
    /\ \/ \E a \in MriArtifacts \ {mriArtifact} : mriArtifact' = a /\ UNCHANGED voiceArtifact
       \/ \E a \in VoiceArtifacts \ {voiceArtifact} : voiceArtifact' = a /\ UNCHANGED mriArtifact
    /\ UNCHANGED <<server, phase, registry, history, slots, lastResp, predicted>>

\* ------------------------------------------------------------ GET routes
\* GET /
root ==
    /\ phase = "serving"
    /\ lastResp' =
          Answered(Request("root", "absent", NoCtype, NoPayload), NoOut,
                   Ok(IF server = "eager"
                      THEN [status |-> "ok", mri_model |-> TRUE, voice_model |-> TRUE]
                      ELSE [status |-> "ok", service |-> "Parkinsons ML Server"]))
    /\ UNCHANGED <<server, phase, artifacts, registry, history, slots, predicted>>

\* The body GET /health returns.
HealthBody(mri_loaded, voice_loaded) ==
    [status |-> IF mri_loaded /\ voice_loaded THEN "healthy" ELSE "degraded",
     mri |-> IF mri_loaded THEN "available" ELSE "missing",
     voice |-> IF voice_loaded THEN "available" ELSE "missing"]

\* health_check as its docstring has it ("loads models to verify they're
\* accessible").
health_check_loading ==
    /\ server = "lazy" /\ phase = "serving"
    /\ MayLoad("mri", MriCached)
    /\ load_mri_model
    /\ lastResp' =
          Answered(Request("health", "absent", NoCtype, NoPayload), NoOut,
                   Ok(HealthBody(Exists(mriArtifact), Exists(voiceArtifact))))
    /\ UNCHANGED <<server, phase, artifacts, busy, slots, predicted>>

\* GET /health (the lazy server only)
health_check ==
    /\ server = "lazy" /\ phase = "serving"
    /\ lastResp' =
          Answered(Request("health", "absent", NoCtype, NoPayload), NoOut,
                   Ok(HealthBody(Exists(mriArtifact), Exists(voiceArtifact))))
    /\ UNCHANGED <<server, phase, artifacts, registry, history, slots, predicted>>

\* ------------------------------------------------------- request arrival
\* The bookkeeping of a handler step in which the loader of kind k ended with
\* outcome o and which left the requests `after` in the server.
Settle(k, o, after) ==
    busy' = [j \in Kinds |->
               /\ busy[j] \/ (j = k /\ o \notin {"cached", "skipped"})
               /\ \E r \in BagToSet(after) : r.req.ep = j]

\* The bag of requests once r has left it, and once r has become r2.
Leave(r) == slots (-) SetToBag({r})
Become(r, r2) == Leave(r) (+) SetToBag({r2})

\* The server accepts a POST request; the framework reads its form before it
\* calls the handler, so other handlers may run in between.
accept(q) ==
    /\ phase = "serving" /\ BagCardinality(slots) < NumReqs
    /\ slots' = slots (+) SetToBag({Accepted(q)})
    /\ UNCHANGED <<server, phase, artifacts, registry, history, lastResp, predicted>>

\* ------------------------------------------------------ POST /predict/mri
\* A step of a handler: it answers, or it suspends at its await.
Stop(resp) == [await |-> FALSE, resp |-> resp]
Suspend == [await |-> TRUE, resp |-> Unhandled("none")]

\* predict_mri up to `await file.read()`, the loader (lazy server) having ended
\* with outcome o.
MriValidate(srv, q, o) ==
    IF q.file = "absent" THEN Stop(MissingField)
    ELSE IF o \in LoadErrors THEN Stop(Unhandled(o))
    ELSE IF srv = "eager"
    THEN IF q.ctype = NoCtype THEN Stop(Http(400, Detail("No file uploaded", "", <<>>)))
         ELSE IF q.ctype[1] # "image" THEN Stop(Http(400, Detail("Upload an image file", "", <<>>)))
         ELSE Suspend
    ELSE IF q.ctype = NoCtype \/ q.ctype[1] # "image"
         THEN Stop(Http(400, Detail("Invalid file type", "", <<>>)))
         ELSE Suspend

\* Whether predict_mri calls the loader before it validates the upload.
MriLoadsFirst(srv, q) == srv = "lazy" /\ q.file # "absent"

predict_mri_enter(r) ==
    /\ BagIn(r, slots) /\ r.pc = "accepted" /\ r.req.ep = "mri"
    /\ LET q == r.req
           loads == MriLoadsFirst(server, q)
           o == IF loads THEN MriLoadOutcome ELSE "skipped"
           v == MriValidate(server, q, o)
       IN  /\ loads => MayLoad("mri", MriCached)
           /\ IF loads THEN load_mri_model ELSE UNCHANGED <<registry, attempts>>
           /\ IF v.await
              THEN /\ slots' = Become(r, Waiting(q, IF loads THEN mri_model' ELSE None))
                   /\ UNCHANGED lastResp
              ELSE /\ lastResp' = Answered(q, NoOut, v.resp)
                   /\ slots' = Leave(r)
           /\ Settle("mri", o, slots')
    /\ UNCHANGED <<server, phase, artifacts, predicted>>

\* cv2.imdecode(...) is None
Undecodable(img) == ~img.decodable

\* The status predict_mri gives the ValueError of preprocess_mri_from_bytes.
InvalidImage(srv) ==
    IF srv = "lazy" THEN Http(400, Detail("Image processing failed", "Invalid image", <<>>))
    ELSE Http(500, Detail("MRI prediction failed", "Invalid image", <<>>))

\* predict_mri after `await file.read()`.
MriFinish(srv, model, img, out) ==
    IF Undecodable(img) THEN InvalidImage(srv)
    ELSE IF model = None THEN Http(500, Detail("MRI prediction failed", "AttributeError", <<>>))
    ELSE IF out.raises THEN Http(500, Detail("MRI prediction failed", "InferenceError", <<>>))
    ELSE LET prob == Clip(out.raw)
         IN  Render(Ok([prediction |-> MriLabel(prob), confidence |-> prob]))

predict_mri_resume(r, out) ==
    /\ BagIn(r, slots) /\ r.pc = "await" /\ r.req.ep = "mri"
    /\ out \in (IF Undecodable(r.req.payload) THEN {NoOut} ELSE MriOutcomes)
    /\ LET model == IF server = "lazy" THEN r.model ELSE mri_model
       IN  lastResp' = Answered(r.req, out, MriFinish(server, model, r.req.payload, out))
    /\ slots' = Leave(r)
    /\ Settle("mri", "skipped", slots')
    /\ UNCHANGED <<server, phase, artifacts, registry, attempts>>

\* ---------------------------------------------------- POST /predict/voice
\* except Exception as e: raise HTTPException(500, f"Voice prediction failed: {e}")
VoiceFailed(e) == Http(500, Detail("Voice prediction failed", e, <<>>))

\* What the handler makes of an unparseable JSON body.
NoJson(srv) ==
    IF srv = "lazy" THEN Http(400, Detail("No input provided", "", <<>>))
    ELSE VoiceFailed("JSONDecodeError")

\* The input stage of predict_voice: it ends the request, or yields an array.
Done(resp) == [done |-> TRUE, resp |-> resp, arr |-> Raise("none")]
Got(arr) ==
    IF arr.err # "none" THEN Done(VoiceFailed(arr.err))
    ELSE [done |-> FALSE, resp |-> Unhandled("none"), arr |-> arr]

VoiceInput(srv, q) ==
    IF q.file = "present" THEN Got(preprocess_voice_from_npy_bytes(q.payload))
    ELSE IF q.payload.t = "invalid" THEN Done(NoJson(srv))
    ELSE LET h == HasFeatures(q.payload)
         IN  IF h = "TypeError" THEN Done(VoiceFailed("TypeError"))
             ELSE IF h = "true"
             THEN LET g == GetFeatures(q.payload)
                  IN  IF g.err # "none" THEN Done(VoiceFailed(g.err))
                      ELSE Got(preprocess_voice_from_list(g.value))
             ELSE IF IsList(q.payload) THEN Got(preprocess_voice_from_list(q.payload))
             ELSE Done(Http(400, Detail("Invalid voice input", "", <<>>)))

\* if arr.shape[1] != 22: raise HTTPException(400, f"Expected 22 features, got {arr.shape[1]}")
WidthCheck(arr) ==
    IF Len(arr.shape) < 2 THEN Done(VoiceFailed("IndexError"))
    ELSE IF arr.shape[2] # FEATURES
    THEN Done(Http(400, Detail("Expected features, got", "", <<FEATURES, arr.shape[2]>>)))
    ELSE Got(arr)

\* ReachesPredict as it would be with the width check after the inference.
ReachesPredictUnchecked(srv, q) == ~VoiceInput(srv, q).done

\* Whether the request gets as far as model.predict(arr).
ReachesPredict(srv, q) ==
    LET i == VoiceInput(srv, q)
    IN  ~i.done /\ ~WidthCheck(i.arr).done

\* MaxOf as it would be with min for max.
MinOf(seq) == CHOOSE m \in {seq[i] : i \in 1..Len(seq)} : \A i \in 1..Len(seq) : m <= seq[i]

\* float(max(probs))
MaxOf(seq) == CHOOSE m \in {seq[i] : i \in 1..Len(seq)} : \A i \in 1..Len(seq) : seq[i] <= m

\* VoiceLabel as it would be without the label dictionary.
VoiceLabelRaw(pred) == ToString(pred)

\* VOICE_LABELS.get(pred, str(pred))
VoiceLabel(pred) == IF pred \in DOMAIN VOICE_LABELS THEN VOICE_LABELS[pred] ELSE ToString(pred)

\* predict_voice from model.predict(arr) on.
VoiceInfer(model, hasProba, arr, out) ==
    IF model = None THEN VoiceFailed("AttributeError")
    ELSE IF Len(arr.shape) # 2 THEN VoiceFailed("ValueError")
    ELSE IF out.raises THEN VoiceFailed("InferenceError")
    ELSE LET label == VoiceLabel(out.pred)
             classes == model.classes
         IN  IF hasProba
             THEN IF ~model.proba THEN VoiceFailed("AttributeError")
                  ELSE IF \E i \in 1..Len(classes) : classes[i] \notin DOMAIN VOICE_LABELS
                  THEN VoiceFailed("KeyError")
                  ELSE Render(Ok([prediction |-> label,
                                  confidence |-> Float(MaxOf(out.probs)),
                                  probability |->
                                     [l \in {VOICE_LABELS[classes[i]] : i \in 1..Len(classes)} |->
                                        Float(out.probs[CHOOSE i \in 1..Len(classes) :
                                                           VOICE_LABELS[classes[i]] = l])]]))
             ELSE Render(Ok([prediction |-> label,
                             confidence |-> Float(Scale),
                             probability |-> [l \in {label} |-> Float(Scale)]]))

\* predict_voice after its await.
VoiceFinish(srv, q, model, hasProba, out) ==
    LET i == VoiceInput(srv, q)
    IN  IF i.done THEN i.resp
        ELSE LET w == WidthCheck(i.arr)
             IN  IF w.done THEN w.resp ELSE VoiceInfer(model, hasProba, w.arr, out)

\* Whether predict_voice calls the loader before it reads its input.
VoiceLoadsFirst(srv) == srv = "lazy"

\* predict_voice up to `await file.read()` or `await request.json()`.
predict_voice_enter(r) ==
    /\ BagIn(r, slots) /\ r.pc = "accepted" /\ r.req.ep = "voice"
    /\ LET q == r.req
           loads == VoiceLoadsFirst(server)
           o == IF loads THEN VoiceLoadOutcome ELSE "skipped"
       IN  /\ loads => MayLoad("voice", VoiceCached)
           /\ IF loads THEN load_voice_model ELSE UNCHANGED <<registry, attempts>>
           /\ IF o \in LoadErrors
              THEN /\ lastResp' = Answered(q, NoOut, Unhandled(o))
                   /\ slots' = Leave(r)
              ELSE /\ slots' = Become(r, Waiting(q, IF loads THEN voice_model' ELSE None))
                   /\ UNCHANGED lastResp
           /\ Settle("voice", o, slots')
    /\ UNCHANGED <<server, phase, artifacts, predicted>>

predict_voice_resume(r, out) ==
    /\ BagIn(r, slots) /\ r.pc = "await" /\ r.req.ep = "voice"
    /\ out \in (IF ReachesPredict(server, r.req) THEN VoiceOutcomes ELSE {NoOut})
    /\ LET model == IF server = "lazy" THEN r.model ELSE voice_model
       IN  lastResp' = Answered(r.req, out, VoiceFinish(server, r.req, model, voice_has_proba, out))
    /\ slots' = Leave(r)
    /\ Settle("voice", "skipped", slots')
    /\ UNCHANGED <<server, phase, artifacts, registry, attempts>>

\* ------------------------------------------------------------ the system
\* The serving loop: any interleaving of requests, with the requests and model
\* outcomes of CoreRequests, CoreMriOutcomes and CoreVoiceOutcomes.
Next ==
    \/ Startup
    \/ ArtifactChange
    \/ root
    \/ health_check
    \/ \E q \in CoreRequests : accept(q)
    \/ \E r \in BagToSet(slots) : predict_mri_enter(r)
    \/ \E r \in BagToSet(slots), out \in CoreMriOutcomes :
          predict_mri_resume(r, out) /\ UNCHANGED predicted
    \/ \E r \in BagToSet(slots) : predict_voice_enter(r)
    \/ \E r \in BagToSet(slots), out \in CoreVoiceOutcomes :
          predict_voice_resume(r, out) /\ UNCHANGED predicted

Spec == Init /\ [][Next]_vars

\* The serving loop as a client sees it that keeps the predictions it is given.
NextRepeat ==
    \/ Startup
    \/ ArtifactChange
    \/ root
    \/ health_check
    \/ \E q \in CoreRequests : accept(q)
    \/ \E r \in BagToSet(slots) : predict_mri_enter(r)
    \/ \E r \in BagToSet(slots), out \in CoreMriOutcomes :
          predict_mri_resume(r, out) /\ Remember("mri")
    \/ \E r \in BagToSet(slots) : predict_voice_enter(r)
    \/ \E r \in BagToSet(slots), out \in CoreVoiceOutcomes :
          predict_voice_resume(r, out) /\ Remember("voice")

SpecRepeat == Init /\ [][NextRepeat]_vars

\* One request, of any shape, to a server in any state the serving loop leaves
\* it in: the lazy server with each model unloaded or loaded.
InitIO ==
    /\ server \in Servers
    /\ phase = IF server = "eager" THEN "boot" ELSE "serving"
    /\ mriArtifact \in MriArtifacts
    /\ voiceArtifact \in VoiceArtifacts
    /\ mri_model \in (IF server = "eager" THEN {None} ELSE {None, Handle("mri", 1, FALSE, <<>>)})
    /\ voice_model \in
          (IF server = "eager" THEN {None}
           ELSE {None} \cup {Handle("voice", 1, p, VoiceClasses) : p \in BOOLEAN})
    /\ voice_has_proba = voice_model.proba
    /\ attempts = [k \in Kinds |->
                     IF (IF k = "mri" THEN mri_model ELSE voice_model) = None THEN 0 ELSE 1]
    /\ busy = [k \in Kinds |-> FALSE]
    /\ slots = EmptyBag
    /\ lastResp = NoResp
    /\ predicted = [k \in Kinds |-> NoPrediction]

NextIO ==
    \/ Startup
    \/ \E q \in MriRequests \cup VoiceRequests :
          lastResp = NoResp /\ slots = EmptyBag /\ accept(q)
    \/ \E r \in BagToSet(slots) : predict_mri_enter(r)
    \/ \E r \in BagToSet(slots), out \in MriOutcomes \cup {NoOut} :
          predict_mri_resume(r, out) /\ UNCHANGED predicted
    \/ \E r \in BagToSet(slots) : predict_voice_enter(r)
    \/ \E r \in BagToSet(slots), out \in VoiceOutcomes \cup {NoOut} :
          predict_voice_resume(r, out) /\ UNCHANGED predicted

SpecIO == InitIO /\ [][NextIO]_vars

\* ------------------------------------------------------------- properties
\* The feature list a voice request supplies as JSON, if it supplies one.
SuppliesList(q) ==
    /\ q.ep = "voice" /\ q.file = "absent"
    /\ \/ q.payload.t = "list"
       \/ q.payload.t = "obj" /\ "features" \in DOMAIN q.payload.fields
                              /\ q.payload.fields.features.t = "list"
SuppliedList(q) == IF q.payload.t = "list" THEN q.payload.items ELSE q.payload.fields.features.items

\* A voice request whose input has neither accepted shape.
NeitherShape(q) ==
    /\ q.ep = "voice"
    /\ \/ q.file = "present" /\ q.payload = NpyUnparseable
       \/ q.file = "absent" /\ q.payload.t \in {"invalid", "null", "num", "str"}
       \/ q.file = "absent" /\ q.payload.t = "obj" /\ "features" \notin DOMAIN q.payload.fields
       \/ q.file = "absent" /\ q.payload.t = "list"
            /\ \E i \in 1..Len(q.payload.items) :
                  q.payload.items[i].t = "str" /\ q.payload.items[i].s = <<"features">>

\* An MRI request without a file, or whose file is not declared an image.
NotAnImageUpload(q) ==
    /\ q.ep = "mri"
    /\ q.file = "absent" \/ q.ctype = NoCtype \/ q.ctype[1] # "image"

\* The model of kind k in the registry.
Model(k) == IF k = "mri" THEN mri_model ELSE voice_model

\* C1: a voice request that supplies a feature list whose length is not 22 is
\* answered 400 with a message that holds 22 and the length of the list.
C1_WrongLengthIs400 ==
    (SuppliesList(lastResp.req) /\ Len(SuppliedList(lastResp.req)) # FEATURES)
        => /\ lastResp.resp.status = 400
           /\ lastResp.resp.detail.nums = <<FEATURES, Len(SuppliedList(lastResp.req))>>

\* C2: an MRI request whose file is declared an image and cannot be decoded is
\* answered 400, in both servers, when the MRI model is available.
C2_UndecodableIs400 ==
    (/\ lastResp.req.ep = "mri" /\ lastResp.req.file = "present"
     /\ lastResp.req.ctype # NoCtype /\ lastResp.req.ctype[1] = "image"
     /\ ~lastResp.req.payload.decodable
     /\ lastResp.resp.exc \notin LoadErrors)
        => lastResp.resp.status = 400

\* C3: a voice request whose input has neither accepted shape is answered 400.
C3_NeitherShapeIs400 == NeitherShape(lastResp.req) => lastResp.resp.status = 400

\* C4: an MRI request without a file, or with a file that is not declared an
\* image, is answered 400 in a step that starts no load and leaves the registry
\* as it was.
C4_ValidationBeforeLoad ==
    [][(lastResp' # lastResp /\ NotAnImageUpload(lastResp'.req))
          => (lastResp'.resp.status = 400 /\ UNCHANGED <<registry, attempts>>)]_vars

\* C5: in the lazy server a loaded model stays: no step replaces or resets the
\* handle, changes _voice_has_proba or starts another load of the kind, and
\* every suspended handler holds the handle of the registry.
C5_CachedForever ==
    [][server = "lazy" =>
          /\ mri_model # None => (mri_model' = mri_model /\ attempts'["mri"] = attempts["mri"])
          /\ voice_model # None =>
                /\ voice_model' = voice_model /\ voice_has_proba' = voice_has_proba
                /\ attempts'["voice"] = attempts["voice"]
          /\ \A r \in BagToSet(slots') :
                r.pc = "await" => (r.model # None /\ r.model = Model(r.req.ep)')]_vars

\* Two requests have used the one MRI handle, loaded once, and the second found
\* it with the artifact gone; the voice model is loaded too.
C5_Witness ==
    /\ server = "lazy" /\ attempts["mri"] = 1 /\ mriArtifact = "missing"
    /\ voice_model # None
    /\ lastResp.req.ep = "mri" /\ lastResp.resp.status = 200
    /\ \E r \in BagToSet(slots) : r.pc = "await" /\ r.req.ep = "mri" /\ r.model = mri_model

\* The first load started for kind k failed: no handle, or a later one.
FirstLoadFailed(k) == attempts[k] >= 1 /\ Model(k).id # 1

\* C6: in the lazy server a kind whose first load failed is never loaded again:
\* its number of load attempts stays 1.
C6_FailedStaysFailed ==
    \A k \in Kinds : (server = "lazy" /\ FirstLoadFailed(k)) => attempts[k] = 1

\* C7: in the lazy server, among requests of a kind that are in the server
\* together, at most one starts a load: once one has, no other does.
C7_OneLoad ==
    [][\A k \in Kinds : (server = "lazy" /\ busy[k]) => attempts'[k] = attempts[k]]_vars

MriSuccess == lastResp.req.ep = "mri" /\ lastResp.resp.status = 200

\* C9: the confidence of a 200 response of POST /predict/mri is in [0, 1].
C9_ConfidenceInUnitInterval ==
    MriSuccess =>
        /\ ~lastResp.resp.body.confidence.nan
        /\ lastResp.resp.body.confidence.v >= 0
        /\ lastResp.resp.body.confidence.v <= Scale

\* A 200 response to an image the model scored above 1.
C9_Witness == MriSuccess /\ lastResp.out.raw.v > Scale

\* The raw score of the answered request, brought into [0, 1].
Clipped ==
    IF lastResp.out.raw.v < 0 THEN 0
    ELSE IF lastResp.out.raw.v > Scale THEN Scale ELSE lastResp.out.raw.v

\* C10: in a 200 response of POST /predict/mri the prediction is "parkinsons"
\* exactly when the clipped score is above 0.5, "normal" otherwise, and the
\* confidence is the clipped score for both labels.
C10_LabelAndConfidence ==
    MriSuccess =>
        /\ lastResp.resp.body.prediction = (IF 2 * Clipped > Scale THEN "parkinsons" ELSE "normal")
        /\ lastResp.resp.body.confidence = Float(Clipped)

\* A 200 response "normal" with confidence exactly 0.5.
C10_Witness ==
    /\ MriSuccess /\ 2 * lastResp.out.raw.v = Scale
    /\ lastResp.resp.body.prediction = "normal"

\* A voice request answered 200.
VoiceSuccess == lastResp.req.ep = "voice" /\ lastResp.resp.status = 200

\* The two labels of the voice model.
KnownLabels == {VOICE_LABELS[c] : c \in DOMAIN VOICE_LABELS}

\* C11: in a 200 response of POST /predict/voice, when the model estimates
\* probabilities the probability mapping has one entry per class of the model,
\* under the label of the class, holding the probability of the class, and the
\* confidence is the largest value of the mapping; when it does not, the mapping
\* is {prediction: 1.0} and the confidence is 1.0.
C11_ProbabilityMapping ==
    VoiceSuccess =>
        LET body == lastResp.resp.body
            classes == voice_model.classes
        IN  IF voice_model.proba
            THEN /\ DOMAIN body.probability = {VOICE_LABELS[classes[i]] : i \in 1..Len(classes)}
                 /\ \A i \in 1..Len(classes) :
                       body.probability[VOICE_LABELS[classes[i]]] = Float(lastResp.out.probs[i])
                 /\ \E l \in DOMAIN body.probability : body.probability[l] = body.confidence
                 /\ \A l \in DOMAIN body.probability : body.probability[l].v <= body.confidence.v
            ELSE /\ DOMAIN body.probability = {body.prediction}
                 /\ body.probability[body.prediction] = Float(Scale)
                 /\ body.confidence = Float(Scale)

\* A 200 response of a model that estimates probabilities, whose predicted class
\* is not the class of the largest probability.
C11_Witness ==
    /\ VoiceSuccess /\ voice_model.proba
    /\ lastResp.out.pred = 0 /\ lastResp.out.probs[1] < lastResp.out.probs[2]
    /\ lastResp.resp.body.confidence = Float(lastResp.out.probs[2])

C13_SameRequestSameAnswer ==
    \A k \in Kinds :
        (lastResp.resp.status = 200 /\ predicted[k] # NoPrediction
                                    /\ lastResp.req = predicted[k].req)
            => lastResp.resp = predicted[k].resp

\* The voice request has been answered 200 twice by the lazy server, with an MRI
\* request answered 200 too and the voice artifact replaced since the load.
C13_Witness ==
    /\ server = "lazy"
    /\ predicted["voice"].again /\ predicted["mri"] # NoPrediction
    /\ lastResp.req.ep = "voice" /\ lastResp.resp.status = 200
    /\ voice_model # None /\ HasProba(voiceArtifact) # voice_model.proba

\* C14: a prediction request that fails in its handler is answered with an
\* HTTPException of status 400 or 500 that carries a message; no other exception
\* leaves the handler.
C14_FailuresAreWrapped ==
    (/\ lastResp.req.ep \in {"mri", "voice"}
     /\ lastResp.resp.status # 200
     /\ lastResp.resp.exc # "RequestValidationError")
        => /\ lastResp.resp.exc = "HTTPException"
           /\ lastResp.resp.status \in {400, 500}
           /\ lastResp.resp.detail # NoDetail

\* C15: the array the voice endpoint gives to model.predict has shape (1, 22),
\* and an input read as an array of any other shape is answered 400 without
\* inference, whenever the model could be loaded.
C15_PredictGetsOneRow ==
    (lastResp.req.ep = "voice" /\ lastResp.resp.exc \notin LoadErrors) =>
        LET i == VoiceInput(server, lastResp.req)
        IN  /\ lastResp.out.ran => i.arr.shape = <<1, FEATURES>>
            /\ (~i.done /\ i.arr.shape # <<1, FEATURES>>)
                  => (lastResp.resp.status = 400 /\ ~lastResp.out.ran)

\* C16: preprocess_voice_from_npy_bytes turns a 1-D array of N elements into
\* (1, N) with the elements in order, a 2-D array of R # 1 rows and C columns
\* into (1, R*C) in row-major order, and leaves a (1, C) array as it is; an
\* upload of R # 1 rows with R*C = 22 passes the width check and is predicted.
C16_NpyReshape ==
    (/\ lastResp.req.ep = "voice" /\ lastResp.req.file = "present"
     /\ lastResp.req.payload.arr.err = "none") =>
        LET a == lastResp.req.payload.arr
            b == preprocess_voice_from_npy_bytes(lastResp.req.payload)
        IN  /\ Len(a.shape) = 1 => b = Arr(<<1, a.shape[1]>>, a.data)
            /\ (Len(a.shape) = 2 /\ a.shape[1] # 1)
                  => b = Arr(<<1, a.shape[1] * a.shape[2]>>, a.data)
            /\ (Len(a.shape) = 2 /\ a.shape[1] = 1) => b = a
            /\ (/\ Len(a.shape) = 2 /\ a.shape[1] # 1 /\ a.shape[1] * a.shape[2] = FEATURES
                /\ lastResp.resp.exc \notin LoadErrors)
                  => /\ lastResp.out.ran
                     /\ ~lastResp.out.raises => lastResp.resp.status = 200

\* An upload of 2 rows, 22 elements in all, answered 200.
C16_Witness ==
    /\ lastResp.req.ep = "voice" /\ lastResp.req.file = "present"
    /\ lastResp.req.payload.arr.err = "none"
    /\ Len(lastResp.req.payload.arr.shape) = 2
    /\ lastResp.req.payload.arr.shape[1] = 2
    /\ lastResp.req.payload.arr.shape[1] * lastResp.req.payload.arr.shape[2] = FEATURES
    /\ lastResp.resp.status = 200

\* C17: the eager server holds or has answered a request only when it serves
\* with both models loaded and _voice_has_proba set from the voice model; with
\* an artifact missing or unloadable its import fails and it never serves.
C17_EagerLoadsFirst ==
    server = "eager" =>
        /\ (slots # EmptyBag \/ lastResp # NoResp) =>
              /\ phase = "serving"
              /\ mri_model # None /\ voice_model # None
              /\ voice_has_proba = (voiceArtifact = "probabilistic")
        /\ (phase # "boot" /\ ~(mriArtifact = "ok" /\ voiceArtifact \in {"point", "probabilistic"}))
              => (phase = "crashed" /\ slots = EmptyBag /\ lastResp = NoResp)

\* The eager server has answered a voice request 200 with the probabilities of
\* its model.
C17_Witness ==
    /\ server = "eager" /\ lastResp.req.ep = "voice" /\ lastResp.resp.status = 200
    /\ voice_has_proba /\ DOMAIN lastResp.resp.body.probability = KnownLabels

\* C18: a voice request answered 400 has not had the model's predict or
\* predict_proba called for it.
C18_No400AfterPredict ==
    (lastResp.req.ep = "voice" /\ lastResp.resp.status = 400) => ~lastResp.out.ran

\* A voice request of 23 features answered 400 by the width check, the model
\* loaded.
C18_Witness ==
    /\ lastResp.req.ep = "voice" /\ lastResp.resp.status = 400
    /\ lastResp.resp.detail.nums = <<FEATURES, FEATURES + 1>>
    /\ voice_model # None
====
